---------------------------- MODULE Spec2Model ----------------------------
(***************************************************************************)
(* lv2file: apply an LV2 plugin to a sound file (src/lv2file.c).           *)
(*                                                                         *)
(* The model follows main() phase by phase: plugin lookup, input open,     *)
(* port classification, output open, the two passes over the -c routing    *)
(* lists (instance counting, connection matrix), instantiation, control    *)
(* value resolution, the block loop of DEFINE_PROCESS and the cleanup      *)
(* labels.                                                                 *)
(*                                                                         *)
(* Conventions.  C strings are sequences of one-character strings.  Array  *)
(* indices keep the code's 0-based values (arrays are functions on 0..n-1, *)
(* index lists such as inindices are sequences holding 0-based indices).   *)
(* Audio samples are integers in units of 1/Unit (full scale 1.0 = Unit);  *)
(* control values are integers, the metadata ranges even ones.             *)
(***************************************************************************)
EXTENDS Integers, Sequences, FiniteSets, TLC

\* ------------------------------------------------------------------ bounds
MaxChannels == 2
MaxInst == 2
MaxEntries == 2
MaxFrames == 3
MaxBlock == 2
MaxPorts == 3
MaxValue == 2

\* ----------------------------------------------------------- C strings
Digits == <<"0", "1", "2", "3", "4", "5", "6", "7", "8", "9">>

IsDigit(c) == \E d \in 1..10 : Digits[d] = c

DigitVal(c) == (CHOOSE d \in 1..10 : Digits[d] = c) - 1

\* atoi on a string of the model's alphabet: the value of its longest
\* prefix of decimal digits, 0 if it has none
RECURSIVE AtoiFrom(_, _, _)
AtoiFrom(s, i, acc) ==
  IF i > Len(s) \/ ~IsDigit(s[i]) THEN acc
  ELSE AtoiFrom(s, i + 1, acc * 10 + DigitVal(s[i]))

atoi(s) == AtoiFrom(s, 1, 0)

\* the text of s from position pos on (the C pointer s + pos - 1)
StrFrom(s, pos) == SubSeq(s, pos, Len(s))

\* strchr / memchr: the first position in from..to holding c, 0 for NULL
FindChar(s, from, to, c) ==
  IF \E i \in from..to : s[i] = c
  THEN CHOOSE i \in from..to : s[i] = c /\ \A j \in from..(i - 1) : s[j] # c
  ELSE 0

\* decimal rendering of a natural number, used to write the command line
RECURSIVE Itoa(_)
Itoa(n) == IF n < 10 THEN <<Digits[n + 1]>> ELSE Itoa(n \div 10) \o <<Digits[(n % 10) + 1]>>

\* ------------------------------------------------------------ plugin ports
\* A float of the port metadata that may be undefined is a tuple: <<>> for
\* NaN, <<v>> for the value v
NaN == <<>>
Num(v) == <<v>>
isnan(f) == f = <<>>
Val(f) == f[1]

Port(cls, dir, sym, fw, opt, dflt, min, max) ==
  [cls |-> cls, dir |-> dir, sym |-> sym, fw |-> fw, opt |-> opt,
   dflt |-> dflt, min |-> min, max |-> max]

AudioIn(sym) == Port("audio", "in", sym, FALSE, FALSE, NaN, NaN, NaN)
AudioOut(sym) == Port("audio", "out", sym, FALSE, FALSE, NaN, NaN, NaN)
CtlIn(sym, dflt, min, max) == Port("control", "in", sym, FALSE, FALSE, dflt, min, max)
Freewheel(sym, dflt, min, max) == Port("control", "in", sym, TRUE, FALSE, dflt, min, max)
CtlOut(sym) == Port("control", "out", sym, FALSE, FALSE, NaN, NaN, NaN)
AtomIn(sym) == Port("atom", "in", sym, FALSE, FALSE, NaN, NaN, NaN)
Other(sym, opt) == Port("other", "none", sym, FALSE, opt, NaN, NaN, NaN)

NoPlugin == <<>>

\* the port with 0-based index i
PortAt(p, i) == p[i + 1]

numports(p) == Len(p)

AllIndices(p) == [i \in 1..Len(p) |-> i - 1]

IsAudioIn(q) == q.cls = "audio" /\ q.dir = "in"
IsAudioOut(q) == q.cls = "audio" /\ q.dir = "out"
IsControlIn(q) == q.cls = "control" /\ q.dir = "in"
IsControlOut(q) == q.cls = "control" /\ q.dir = "out"

inindices(p) == SelectSeq(AllIndices(p), LAMBDA i : IsAudioIn(PortAt(p, i)))
outindices(p) == SelectSeq(AllIndices(p), LAMBDA i : IsAudioOut(PortAt(p, i)))
controlindices(p) == SelectSeq(AllIndices(p), LAMBDA i : IsControlIn(PortAt(p, i)))
controloutindices(p) == SelectSeq(AllIndices(p), LAMBDA i : IsControlOut(PortAt(p, i)))

numin(p) == Len(inindices(p))
numout(p) == Len(outindices(p))
numcontrol(p) == Len(controlindices(p))

\* the plugin port index of the last freewheel-flagged control input, or -1
fwheelportidx(p) ==
  LET fw == {i \in 0..(Len(p) - 1) : IsControlIn(PortAt(p, i)) /\ PortAt(p, i).fw}
  IN IF fw = {} THEN -1 ELSE CHOOSE i \in fw : \A j \in fw : j <= i

portsproblem(p) ==
  \E i \in 0..(Len(p) - 1) :
    LET q == PortAt(p, i)
    IN \/ q.cls = "audio" /\ q.dir \notin {"in", "out"}
       \/ q.cls = "control" /\ q.dir \notin {"in", "out"}
       \/ q.cls \notin {"audio", "control", "atom"} /\ ~q.opt

\* the symbol of the port-th audio input port (0-based), lines 641
insymbol(p, port) == PortAt(p, inindices(p)[port + 1]).sym

\* ------------------------------------------------- -c routing: first pass
\* Lines 566-602: one routing list, from position pos on, with np instances
\* counted so far.  Yields the count, or the fatal error met.
RECURSIVE CountList(_, _, _)
CountList(s, pos, np) ==
  IF pos > Len(s) THEN [err |-> "none", n |-> np]
  ELSE
    LET nextcomma == FindChar(s, pos, Len(s), ",")
        colon == IF nextcomma # 0 THEN FindChar(s, pos, nextcomma - 1, ":")
                 ELSE FindChar(s, pos, Len(s), ":")
    IN IF colon = 0 THEN [err |-> "nocolon", n |-> np]
       ELSE
         LET nextcolon == colon + 1
             \* strchr (nextcolon, '.') looks through the rest of the whole
             \* list, the following entries included
             nextperiod == FindChar(s, nextcolon, Len(s), ".")
             pluginstance == IF nextperiod # 0
                             THEN atoi(SubSeq(s, nextcolon, nextperiod - 1)) - 1
                             ELSE 0
             np2 == IF pluginstance >= np THEN pluginstance + 1 ELSE np
         IN IF pluginstance < 0 THEN [err |-> "badinstance", n |-> np]
            ELSE IF nextcomma # 0 THEN CountList(s, nextcomma + 1, np2)
            ELSE [err |-> "none", n |-> np2]

\* Lines 564-603: all the -c arguments in order
RECURSIVE CountArgs(_, _, _)
CountArgs(args, i, np) ==
  IF i > Len(args) THEN [err |-> "none", n |-> np]
  ELSE LET r == CountList(args[i], 1, np)
       IN IF r.err # "none" THEN r ELSE CountArgs(args, i + 1, r.n)

\* Variant of CountInstancesOf: one instance per file channel whenever -m is
\* absent, whatever the number of audio input ports
CountPerChannel(p, args, nchan, mix) ==
  IF Len(args) > 0 THEN CountArgs(args, 1, 1)
  ELSE IF ~mix THEN [err |-> "none", n |-> nchan]
  ELSE [err |-> "none", n |-> 1]

\* Variant of CountInstancesOf: lines 604-606 left out, so that default
\* routing always counts one instance
CountOneInstance(p, args, nchan, mix) ==
  IF Len(args) > 0 THEN CountArgs(args, 1, 1)
  ELSE [err |-> "none", n |-> 1]

\* Lines 562-606: the number of plugin instances
CountInstancesOf(p, args, nchan, mix) ==
  IF Len(args) > 0 THEN CountArgs(args, 1, 1)
  ELSE IF numin(p) = 1 /\ ~mix THEN [err |-> "none", n |-> nchan]
  ELSE [err |-> "none", n |-> 1]

\* ------------------------------------------------ -c routing: second pass
\* Lines 608-609: the zeroed connection matrix
NoConnections(np, p, nchan) ==
  [i \in 0..(np - 1) |-> [port \in 0..(numin(p) - 1) |-> [ch \in 0..(nchan - 1) |-> FALSE]]]

\* whether connections[pluginstance][port][channel] is a cell of the array c
InMatrix(c, pluginstance, port, channel) ==
  /\ pluginstance \in DOMAIN c
  /\ port \in DOMAIN c[pluginstance]
  /\ channel \in DOMAIN c[pluginstance][port]

\* connections[pluginstance][port][channel] = true; an index outside the
\* array is a write outside it (oob)
SetConnection(c, np, pluginstance, port, channel) ==
  IF pluginstance \in 0..(np - 1) /\ InMatrix(c, pluginstance, port, channel)
  THEN [conn |-> [c EXCEPT ![pluginstance][port][channel] = TRUE], oob |-> FALSE]
  ELSE [conn |-> c, oob |-> TRUE]

\* Lines 638-647: the first audio input port whose symbol is sym, or -1
MatchPort(p, sym) ==
  LET hits == {port \in 0..(numin(p) - 1) : insymbol(p, port) = sym}
  IN IF hits = {} THEN -1 ELSE CHOOSE port \in hits : \A q \in hits : port <= q

\* Lines 615-656: one routing list from position pos on.  acc holds the
\* matrix so far, whether a write fell outside it, and the warnings.
RECURSIVE BuildList(_, _, _, _, _, _)
BuildList(p, s, pos, np, nchan, acc) ==
  IF pos > Len(s) THEN acc
  ELSE
    LET channel == atoi(StrFrom(s, pos)) - 1
    IN IF channel < 0 \/ channel >= nchan THEN [acc EXCEPT !.err = "channel"]
       ELSE
         LET nextcomma == FindChar(s, pos, Len(s), ",")
             \* *nextcomma = 0 ends the entry's text
             last == IF nextcomma # 0 THEN nextcomma - 1 ELSE Len(s)
             nextcolon == FindChar(s, pos, last, ":") + 1
             period == FindChar(s, nextcolon, last, ".")
             \* atoi (nextcolon + 1): the instance number less its first
             \* character; as unsigned, -1 is UINT_MAX
             pluginstance == IF period # 0
                             THEN atoi(SubSeq(s, nextcolon + 1, period - 1)) - 1
                             ELSE 0
             \* *nextperiod = 0 leaves nextperiod at an empty string
             nextperiod == IF period # 0 THEN <<>> ELSE SubSeq(s, nextcolon, last)
             port == MatchPort(p, nextperiod)
             w == IF port >= 0 THEN SetConnection(acc.conn, np, pluginstance, port, channel)
                  ELSE [conn |-> acc.conn, oob |-> FALSE]
             acc2 == [acc EXCEPT !.conn = w.conn,
                                 !.oob = acc.oob \/ w.oob,
                                 !.warnings = IF port >= 0 THEN @ ELSE @ + 1]
         IN IF nextcomma # 0 THEN BuildList(p, s, nextcomma + 1, np, nchan, acc2)
            ELSE acc2

RECURSIVE BuildArgs(_, _, _, _, _, _)
BuildArgs(p, args, i, np, nchan, acc) ==
  IF i > Len(args) \/ acc.err # "none" THEN acc
  ELSE BuildArgs(p, args, i + 1, np, nchan, BuildList(p, args[i], 1, np, nchan, acc))

\* Variant of DefaultWrites: the per-channel branch sets connections[0][0][i]
\* where the code sets connections[i][0][i]
DefaultWritesShared(p, nchan, mix) ==
  IF numin(p) = nchan THEN {<<0, i, i>> : i \in 0..(numin(p) - 1)}
  ELSE IF numin(p) = 1 THEN
    IF mix THEN {<<0, 0, i>> : i \in 0..(numin(p) - 1)}
    ELSE {<<0, 0, i>> : i \in 0..(nchan - 1)}
  ELSE IF nchan > numin(p) THEN {<<0, i, i>> : i \in 0..(numin(p) - 1)}
  ELSE {}

\* Lines 660-685: the cells <<instance, port, channel>> the default
\* heuristics set, by the branch taken; none in the branch that aborts
DefaultWrites(p, nchan, mix) ==
  IF numin(p) = nchan THEN {<<0, i, i>> : i \in 0..(numin(p) - 1)}
  ELSE IF numin(p) = 1 THEN
    IF mix
    THEN \* for (i = 0; i < numin; i++) connections[0][0][i] = true
         {<<0, 0, i>> : i \in 0..(numin(p) - 1)}
    ELSE {<<i, 0, i>> : i \in 0..(nchan - 1)}
  ELSE IF nchan > numin(p) THEN {<<0, i, i>> : i \in 0..(numin(p) - 1)}
  ELSE {}

\* Line 682: no default heuristic applies
NoDefault(p, nchan) == numin(p) # nchan /\ numin(p) # 1 /\ nchan <= numin(p)

\* Lines 660-685: the default heuristics on the zeroed matrix
DefaultConnections(p, np, nchan, mix) ==
  LET c0 == NoConnections(np, p, nchan)
      W == DefaultWrites(p, nchan, mix)
  IN [err |-> IF NoDefault(p, nchan) THEN "routing" ELSE "none",
      conn |-> [i \in DOMAIN c0 |-> [port \in DOMAIN c0[i] |->
                  [ch \in DOMAIN c0[i][port] |-> <<i, port, ch>> \in W]]],
      oob |-> \E w \in W : ~InMatrix(c0, w[1], w[2], w[3])]

\* Lines 608-686: the connection matrix
BuildConnections(p, args, np, nchan, mix) ==
  IF Len(args) > 0
  THEN BuildArgs(p, args, 1, np, nchan,
                 [err |-> "none", conn |-> NoConnections(np, p, nchan),
                  oob |-> FALSE, warnings |-> 0])
  ELSE LET d == DefaultConnections(p, np, nchan, mix)
       IN [err |-> d.err, conn |-> d.conn, oob |-> d.oob, warnings |-> 0]

\* ------------------------------------------------------- control values
\* Lines 106-128: the callback of lilv_state_restore, for one port value of
\* the preset (isfloat: its type is 0 or atom:Float)
set_port_value(p, params, port_symbol, value, isfloat) ==
  IF ~isfloat THEN params
  ELSE LET hits == {port \in 0..(numports(p) - 1) : PortAt(p, port).sym = port_symbol}
       IN IF hits = {} THEN params
          ELSE [params EXCEPT ![CHOOSE port \in hits : \A q \in hits : port <= q] = Num(value)]

\* lilv_state_restore (line 749): set_port_value for every port value of the preset
RECURSIVE RestoreState(_, _, _, _)
RestoreState(p, st, i, params) ==
  IF i > Len(st) THEN params
  ELSE RestoreState(p, st, i + 1,
                    set_port_value(p, params, st[i].sym, st[i].value, st[i].isfloat))

Min2(a, b) == IF a < b THEN a ELSE b
Max2(a, b) == IF a > b THEN a ELSE b

\* Variant of getstartingvalue: fmin and fmax exchanged
getstartingvalueSwapped(dflt, min, max) ==
  IF ~isnan(dflt) THEN Val(dflt)
  ELSE IF isnan(min)
       THEN IF isnan(max) THEN 0 ELSE Max2(Val(max), 0)
       ELSE IF isnan(max) THEN Min2(Val(min), 0) ELSE (Val(min) + Val(max)) \div 2

\* Lines 217-237.  The metadata ranges of the model are even numbers, so the
\* division is exact.
getstartingvalue(dflt, min, max) ==
  IF ~isnan(dflt) THEN Val(dflt)
  ELSE IF isnan(min)
       THEN IF isnan(max) THEN 0 ELSE Min2(Val(max), 0)
       ELSE IF isnan(max) THEN Max2(Val(min), 0) ELSE (Val(min) + Val(max)) \div 2

\* Lines 766-769
StartingValues(p, dv) ==
  [port \in 0..(numcontrol(p) - 1) |->
     LET portindex == controlindices(p)[port + 1]
     IN getstartingvalue(dv[portindex], PortAt(p, portindex).min, PortAt(p, portindex).max)]

\* Lines 771-773: controlports[fwheelportidx] = 1, indexed by the plugin's
\* port index.  oob: the index is past the end of controlports.
ForceFreewheel(p, cp) ==
  LET idx == fwheelportidx(p)
  IN IF idx < 0 THEN [cp |-> cp, oob |-> FALSE]
     ELSE IF idx < numcontrol(p) THEN [cp |-> [cp EXCEPT ![idx] = 1], oob |-> FALSE]
     ELSE [cp |-> cp, oob |-> TRUE]

\* the symbol of the port-th control input port (0-based), line 795
controlsymbol(p, port) == PortAt(p, controlindices(p)[port + 1]).sym

\* strtof on the model's alphabet: a run of decimal digits
strtof(s) == atoi(s)

\* Lines 778-810: one -p list from position pos on
RECURSIVE ParseParameters(_, _, _, _)
ParseParameters(p, s, pos, acc) ==
  IF pos > Len(s) THEN acc
  ELSE
    LET nextcomma == FindChar(s, pos, Len(s), ",")
        last == IF nextcomma # 0 THEN nextcomma - 1 ELSE Len(s)
        nextcolon == FindChar(s, pos, last, ":")
    IN IF nextcolon = 0 THEN [acc EXCEPT !.err = "parameters"]
       ELSE
         LET value == strtof(SubSeq(s, nextcolon + 1, last))
             name == SubSeq(s, pos, nextcolon - 1)
             hits == {port \in 0..(numcontrol(p) - 1) : controlsymbol(p, port) = name}
             acc2 == IF hits = {} THEN [acc EXCEPT !.warnings = @ + 1]
                     ELSE [acc EXCEPT !.cp[CHOOSE port \in hits : \A q \in hits : port <= q] = value]
         IN IF nextcomma # 0 THEN ParseParameters(p, s, nextcomma + 1, acc2) ELSE acc2

\* Lines 775-812: all the -p arguments in order
RECURSIVE ApplyControls(_, _, _, _)
ApplyControls(p, ctls, i, acc) ==
  IF i > Len(ctls) \/ acc.err # "none" THEN acc
  ELSE ApplyControls(p, ctls, i + 1, ParseParameters(p, ctls[i], 1, acc))

\* ---------------------------------------------------------------- audio
RECURSIVE Factorial(_)
Factorial(n) == IF n <= 1 THEN 1 ELSE n * Factorial(n - 1)

\* Full scale (the float 1.0).  A multiple of every channel count, so that
\* the means mix() takes of the model's samples are exact.
Unit == Factorial(MaxChannels)

\* the samples a file of the model holds: -2.0, 1.0 and 2.0
SampleVals == {0 - 2 * Unit, Unit, 2 * Unit}

RECURSIVE SumOver(_, _)
SumOver(f, S) == IF S = {} THEN 0 ELSE LET x == CHOOSE x \in S : TRUE IN f[x] + SumOver(f, S \ {x})

\* Variant of mix: line 190 left out, so that each sum starts from what the
\* planar buffer held
mixAccumulate(buf, framesread, nchan, np, nin, conn, pb) ==
  [plugnum \in 0..(np - 1) |-> [port \in 0..(nin - 1) |-> [i \in DOMAIN pb[plugnum][port] |->
     IF i >= framesread THEN pb[plugnum][port][i]
     ELSE LET flagged == {ch \in 0..(nchan - 1) : conn[plugnum][port][ch]}
              nummixed == Cardinality(flagged)
              sum == pb[plugnum][port][i]
                     + SumOver([ch \in flagged |-> buf[i * nchan + ch]], flagged)
          IN IF nummixed # 0 THEN sum \div nummixed ELSE sum]]]

\* Lines 183-203: the planar input buffers after mixing framesread frames
mix(buf, framesread, nchan, np, nin, conn, pb) ==
  [plugnum \in 0..(np - 1) |-> [port \in 0..(nin - 1) |-> [i \in DOMAIN pb[plugnum][port] |->
     IF i >= framesread THEN pb[plugnum][port][i]
     ELSE LET flagged == {ch \in 0..(nchan - 1) : conn[plugnum][port][ch]}
              nummixed == Cardinality(flagged)
              sum == SumOver([ch \in flagged |-> buf[i * nchan + ch]], flagged)
          IN IF nummixed # 0 THEN sum \div nummixed ELSE sum]]]

\* lilv_instance_run (line 322) of one instance over sample_count frames.
\* The plugin of the model copies input port (o mod numin) to output port o;
\* it writes silence when it has no audio input.
PluginRun(inbufs, outbufs, nin, nout, sample_count) ==
  [o \in 0..(nout - 1) |-> [i \in DOMAIN outbufs[o] |->
     IF i >= sample_count THEN outbufs[o][i]
     ELSE IF nin = 0 THEN 0 ELSE inbufs[o % nin][i]]]

\* the sample count main's loop passes to lilv_instance_run (line 322)
RunLength(bsize, nread) == bsize

\* Lines 205-215: sndfilebuffer after interleaving.  Cells never written
\* are outside the function's domain.
interleaveoutput(nread, np, nout, bsize, ob, sfb) ==
  LET cells == {t \in (0..(np - 1)) \X (0..(nout - 1)) \X (0..(nread - 1)) : TRUE}
      Idx(t) == t[1] * nout * bsize + t[3] * nout + t[2]
      written == {Idx(t) : t \in cells}
  IN [k \in (DOMAIN sfb) \cup written |->
        IF k \in written
        THEN LET t == CHOOSE t \in cells : Idx(t) = k IN ob[t[1]][t[2]][t[3]]
        ELSE sfb[k]]

\* Lines 239-256
clipOutput(size, buf) ==
  [clipped |-> \E i \in 0..(size - 1) : buf[i] > Unit \/ buf[i] < 0 - Unit,
   buffer |-> [k \in DOMAIN buf |->
                 IF k >= size THEN buf[k]
                 ELSE IF buf[k] > Unit THEN Unit
                 ELSE IF buf[k] < 0 - Unit THEN 0 - Unit
                 ELSE buf[k]]]

\* Lines 341-348: CHECK_CLIPPED of process_check_clipping
CheckClippedOf(wasclipped, size, buf) ==
  IF ~wasclipped
  THEN LET r == clipOutput(size, buf)
       IN [clipped |-> r.clipped, buffer |-> r.buffer, warn |-> r.clipped]
  ELSE [clipped |-> wasclipped, buffer |-> buf, warn |-> FALSE]

\* Variant of WrittenFrames: sf_write_float in the place of sf_writef_float,
\* which takes the count as a number of samples
WrittenItems(buf, nframes, nchan) ==
  [f \in 1..(nframes \div nchan) |-> [c \in 1..nchan |-> buf[(f - 1) * nchan + (c - 1)]]]

\* sf_writef_float (line 326): nframes frames of the file's channel count,
\* taken from the start of the buffer
WrittenFrames(buf, nframes, nchan) ==
  [f \in 1..nframes |-> [c \in 1..nchan |-> buf[(f - 1) * nchan + (c - 1)]]]

\* ------------------------------------------------------------------ state
VARIABLES
  pc,               \* the place main() has reached
  plugin,           \* the ports of the plugin named on the command line, NoPlugin if unknown
  connectargs,      \* the -c arguments, each a routing list
  controls,         \* the -p arguments, each a list of port:value
  mixdown,          \* -m
  ignore_clipping,  \* --ignore-clipping
  blocksize,        \* -b
  state,            \* the preset found for -P: its port values, or NoState
  infile,           \* the input file: [channels, frames]
  insndfile,        \* "unopened", "open", "null" (open failed) or "closed"
  outsndfile,       \* the same for the output handle
  outfile,          \* the output file on disk: [created, channels, frames]
  numplugins,
  connections,
  instances,        \* the instances created so far, each "active" or "freed"
  defaultvalues,
  controlports,
  buffer,           \* the interleaved input block
  numread,
  inpos,            \* frames of the input file read so far
  pluginbuffers,
  outputbuffers,
  sndfilebuffer,
  runframes,        \* sample count of the last lilv_instance_run of each instance
  clipped,
  warned,           \* number of clipping warnings printed
  stderr,           \* the messages printed to stderr, as tags
  exitstatus,       \* "running", or the status the process returned
  ub                \* whether a write outside an array has happened

args == <<plugin, connectargs, controls, mixdown, ignore_clipping, blocksize, state, infile>>
files == <<insndfile, outsndfile, outfile>>
routing == <<numplugins, connections>>
ctl == <<defaultvalues, controlports>>
audio == <<buffer, numread, inpos, pluginbuffers, outputbuffers, sndfilebuffer, runframes, clipped, warned>>
vars == <<pc, args, files, routing, instances, ctl, audio, stderr, exitstatus, ub>>

\* no preset (state == NULL); a preset is a sequence of port values
NoState == <<>>

numchannels == infile.channels

\* the fatal errors main() reports before it jumps to a cleanup label
FatalErrors == {"noplugin", "infile", "ports", "outfile", "nocolon", "badinstance",
                "channel", "routing", "instantiate", "parameters"}

Aborted == stderr \cap FatalErrors # {}

\* ---------------------------------------------------------------- actions
\* Lines 436-440
GetPlugin ==
  /\ pc = "getplugin"
  /\ IF plugin = NoPlugin
     THEN /\ stderr' = stderr \cup {"noplugin"}
          /\ pc' = "cleanup_argtable"
     ELSE /\ pc' = "open_in"
          /\ UNCHANGED stderr
  /\ UNCHANGED <<args, files, routing, instances, ctl, audio, exitstatus, ub>>

\* Lines 489-499
OpenInput ==
  /\ pc = "open_in"
  /\ \E ok \in BOOLEAN :
       IF ok
       THEN /\ insndfile' = "open"
            /\ pc' = "ports"
            /\ UNCHANGED stderr
       ELSE /\ insndfile' = "null"
            /\ stderr' = stderr \cup {"infile"}
            /\ pc' = "cleanup_sndfile"
  /\ UNCHANGED <<args, outsndfile, outfile, routing, instances, ctl, audio, exitstatus, ub>>

\* Lines 501-551
ClassifyPorts ==
  /\ pc = "ports"
  /\ IF portsproblem(plugin)
     THEN /\ stderr' = stderr \cup {"ports"}
          /\ pc' = "cleanup_sndfile"
     ELSE /\ pc' = "open_out"
          /\ UNCHANGED stderr
  /\ UNCHANGED <<args, files, routing, instances, ctl, audio, exitstatus, ub>>

\* Lines 552-559: sf_open (SFM_WRITE) creates or truncates the file
OpenOutput ==
  /\ pc = "open_out"
  /\ \E ok \in BOOLEAN :
       IF ok
       THEN /\ outsndfile' = "open"
            /\ outfile' = [created |-> TRUE, channels |-> numout(plugin), frames |-> <<>>]
            /\ pc' = "count"
            /\ UNCHANGED stderr
       ELSE /\ outsndfile' = "null"
            /\ stderr' = stderr \cup {"outfile"}
            /\ pc' = "cleanup_outfile"
            /\ UNCHANGED outfile
  /\ UNCHANGED <<args, insndfile, routing, instances, ctl, audio, exitstatus, ub>>

\* Lines 561-607
CountInstances ==
  /\ pc = "count"
  /\ LET r == CountInstancesOf(plugin, connectargs, numchannels, mixdown)
     IN IF r.err # "none"
        THEN /\ stderr' = stderr \cup {r.err}
             /\ pc' = "cleanup_outfile"
             /\ UNCHANGED numplugins
        ELSE /\ numplugins' = r.n
             /\ pc' = "matrix"
             /\ UNCHANGED stderr
  /\ UNCHANGED <<args, files, connections, instances, ctl, audio, exitstatus, ub>>

\* Lines 608-714: the connection matrix, then the port ranges of the plugin
BuildMatrix ==
  /\ pc = "matrix"
  /\ LET r == BuildConnections(plugin, connectargs, numplugins, numchannels, mixdown)
         warn == IF r.warnings > 0 THEN {"noport"} ELSE {}
     IN /\ connections' = r.conn
        /\ ub' = (ub \/ r.oob)
        /\ IF r.err # "none"
           THEN /\ stderr' = stderr \cup warn \cup {r.err}
                /\ pc' = "cleanup_outfile"
                /\ UNCHANGED defaultvalues
           ELSE /\ stderr' = stderr \cup warn
                /\ defaultvalues' = [i \in 0..(numports(plugin) - 1) |-> PortAt(plugin, i).dflt]
                /\ pc' = "instantiate"
  /\ UNCHANGED <<args, files, numplugins, instances, controlports, audio, exitstatus>>

\* Lines 716-754: one turn of the instantiation loop
Instantiate ==
  /\ pc = "instantiate"
  /\ Len(instances) < numplugins
  /\ \E ok \in BOOLEAN :
       IF ok
       THEN /\ defaultvalues' = IF state = NoState THEN defaultvalues
                                ELSE RestoreState(plugin, state, 1, defaultvalues)
            /\ instances' = Append(instances, "active")
            /\ pc' = IF Len(instances) + 1 = numplugins THEN "controls" ELSE "instantiate"
            /\ UNCHANGED stderr
       ELSE /\ stderr' = stderr \cup {"instantiate"}
            /\ pc' = "cleanup_outfile"
            /\ UNCHANGED <<defaultvalues, instances>>
  /\ UNCHANGED <<args, files, routing, controlports, audio, exitstatus, ub>>

\* Lines 756-773: the zeroed planar buffers, the starting values of the
\* control ports and the freewheel port.  A write past controlports lands
\* in other memory of the process or ends it.
InitControls ==
  /\ pc = "controls"
  /\ pluginbuffers' = [i \in 0..(numplugins - 1) |-> [port \in 0..(numin(plugin) - 1) |->
                          [k \in 0..(blocksize - 1) |-> 0]]]
  /\ outputbuffers' = [i \in 0..(numplugins - 1) |-> [port \in 0..(numout(plugin) - 1) |->
                          [k \in 0..(blocksize - 1) |-> 0]]]
  /\ LET r == ForceFreewheel(plugin, StartingValues(plugin, defaultvalues))
     IN /\ controlports' = r.cp
        /\ ub' = (ub \/ r.oob)
        /\ \E survives \in BOOLEAN :
             /\ (~survives) => r.oob
             /\ IF survives
                THEN pc' = "parameters" /\ UNCHANGED exitstatus
                ELSE pc' = "crashed" /\ exitstatus' = "signal"
  /\ UNCHANGED <<args, files, routing, instances, defaultvalues, buffer, numread, inpos,
                 sndfilebuffer, runframes, clipped, warned, stderr>>

\* Lines 775-812: the -p overrides
ApplyParameters ==
  /\ pc = "parameters"
  /\ LET r == ApplyControls(plugin, controls, 1,
                            [err |-> "none", cp |-> controlports, warnings |-> 0])
         warn == IF r.warnings > 0 THEN {"nocontrol"} ELSE {}
     IN /\ controlports' = r.cp
        /\ IF r.err # "none"
           THEN /\ stderr' = stderr \cup warn \cup {r.err}
                /\ pc' = "cleanup_outfile"
           ELSE /\ stderr' = stderr \cup warn
                /\ pc' = "connect"
  /\ UNCHANGED <<args, files, routing, instances, defaultvalues, audio, exitstatus, ub>>

\* Lines 814-851 and 311-313: the ports are bound to the buffers and the
\* block loop is entered
ConnectPorts ==
  /\ pc = "connect"
  /\ clipped' = FALSE
  /\ pc' = "read"
  /\ UNCHANGED <<args, files, routing, instances, ctl, buffer, numread, inpos, pluginbuffers,
                 outputbuffers, sndfilebuffer, runframes, warned, stderr, exitstatus, ub>>

\* Line 315: sf_readf_float reads up to blocksize frames; the samples are
\* whatever the file holds
ReadBlock ==
  /\ pc = "read"
  /\ LET n == Min2(blocksize, infile.frames - inpos)
     IN /\ numread' = n
        /\ inpos' = inpos + n
        /\ \E data \in [0..(n * numchannels - 1) -> SampleVals] :
             buffer' = [k \in (DOMAIN buffer) \cup (DOMAIN data) |->
                          IF k \in DOMAIN data THEN data[k] ELSE buffer[k]]
        /\ pc' = IF n = 0 THEN "cleanup_lv2" ELSE "mix"
  /\ UNCHANGED <<args, files, routing, instances, ctl, pluginbuffers, outputbuffers,
                 sndfilebuffer, runframes, clipped, warned, stderr, exitstatus, ub>>

\* Line 316
Mix ==
  /\ pc = "mix"
  /\ pluginbuffers' = mix(buffer, numread, numchannels, numplugins, numin(plugin),
                          connections, pluginbuffers)
  /\ pc' = "run"
  /\ UNCHANGED <<args, files, routing, instances, ctl, buffer, numread, inpos, outputbuffers,
                 sndfilebuffer, runframes, clipped, warned, stderr, exitstatus, ub>>

\* Lines 317-323: every instance is run once
RunInstances ==
  /\ pc = "run"
  /\ outputbuffers' = [plugnum \in 0..(numplugins - 1) |->
                          PluginRun(pluginbuffers[plugnum], outputbuffers[plugnum],
                                    numin(plugin), numout(plugin),
                                    RunLength(blocksize, numread))]
  /\ runframes' = [plugnum \in 0..(numplugins - 1) |-> RunLength(blocksize, numread)]
  /\ pc' = "interleave"
  /\ UNCHANGED <<args, files, routing, instances, ctl, buffer, numread, inpos, pluginbuffers,
                 sndfilebuffer, clipped, warned, stderr, exitstatus, ub>>

\* Line 324
Interleave ==
  /\ pc = "interleave"
  /\ sndfilebuffer' = interleaveoutput(numread, numplugins, numout(plugin), blocksize,
                                       outputbuffers, sndfilebuffer)
  /\ pc' = IF ignore_clipping THEN "write" ELSE "clip"
  /\ UNCHANGED <<args, files, routing, instances, ctl, buffer, numread, inpos, pluginbuffers,
                 outputbuffers, runframes, clipped, warned, stderr, exitstatus, ub>>

\* Line 325, in process_check_clipping
CheckClipped ==
  /\ pc = "clip"
  /\ LET r == CheckClippedOf(clipped, numread * numout(plugin), sndfilebuffer)
     IN /\ clipped' = r.clipped
        /\ sndfilebuffer' = r.buffer
        /\ warned' = IF r.warn THEN warned + 1 ELSE warned
  /\ pc' = "write"
  /\ UNCHANGED <<args, files, routing, instances, ctl, buffer, numread, inpos, pluginbuffers,
                 outputbuffers, runframes, stderr, exitstatus, ub>>

\* Line 326
WriteBlock ==
  /\ pc = "write"
  /\ outfile' = [outfile EXCEPT
                   !.frames = @ \o WrittenFrames(sndfilebuffer, numread, outfile.channels)]
  /\ pc' = "read"
  /\ UNCHANGED <<args, insndfile, outsndfile, routing, instances, ctl, audio, stderr,
                 exitstatus, ub>>

\* Lines 854-858
DestroyInstances ==
  /\ pc = "cleanup_lv2"
  /\ instances' = [i \in 1..Len(instances) |-> "freed"]
  /\ pc' = "cleanup_outfile"
  /\ UNCHANGED <<args, files, routing, ctl, audio, stderr, exitstatus, ub>>

\* Lines 860-863: cleanup_outfile
CloseOutput ==
  /\ pc = "cleanup_outfile"
  /\ outsndfile' = "closed"
  /\ stderr' = IF outsndfile = "null" THEN stderr \cup {"closeout"} ELSE stderr
  /\ pc' = "cleanup_sndfile"
  /\ UNCHANGED <<args, insndfile, outfile, routing, instances, ctl, audio, exitstatus, ub>>

\* Lines 866-869: cleanup_sndfile
CloseInput ==
  /\ pc = "cleanup_sndfile"
  /\ insndfile' = "closed"
  /\ stderr' = IF insndfile = "null" THEN stderr \cup {"closein"} ELSE stderr
  /\ pc' = "cleanup_argtable"
  /\ UNCHANGED <<args, outsndfile, outfile, routing, instances, ctl, audio, exitstatus, ub>>

\* Lines 871-898: the remaining labels free memory only; main() has no
\* return statement, so reaching its closing brace returns 0
Exit ==
  /\ pc = "cleanup_argtable"
  /\ exitstatus' = "0"
  /\ pc' = "exit"
  /\ UNCHANGED <<args, files, routing, instances, ctl, audio, stderr, ub>>

\* ----------------------------------------------------------- command lines
\* A routing entry as written on the command line (line 403):
\* <channel>:[<instance>.]<symbol>; inst = 0 stands for no instance index,
\* colon = FALSE for an entry written without its colon.
RenderEntry(e) ==
  Itoa(e.ch) \o (IF e.colon THEN <<":">> ELSE <<>>)
             \o (IF e.inst > 0 THEN Itoa(e.inst) \o <<".">> ELSE <<>>)
             \o e.sym

RECURSIVE RenderList(_)
RenderList(es) ==
  IF Len(es) = 0 THEN <<>>
  ELSE IF Len(es) = 1 THEN RenderEntry(es[1])
  ELSE RenderEntry(es[1]) \o <<",">> \o RenderList(Tail(es))

\* A -p entry as written on the command line (line 407): <symbol>:<value>
RenderParameter(e) ==
  e.sym \o (IF e.colon THEN <<":">> ELSE <<>>) \o Itoa(e.value)

RECURSIVE RenderParameters(_)
RenderParameters(es) ==
  IF Len(es) = 0 THEN <<>>
  ELSE IF Len(es) = 1 THEN RenderParameter(es[1])
  ELSE RenderParameter(es[1]) \o <<",">> \o RenderParameters(Tail(es))

ListsUpTo(S, n) == UNION {[1..k -> S] : k \in 1..n}

\* ------------------------------------------------------------------ inputs
Mono == <<AudioIn(<<"l">>), AudioOut(<<"o">>)>>

Stereo == <<CtlIn(<<"g">>, Num(1), NaN, NaN), AudioIn(<<"l">>), AudioIn(<<"r">>),
            AudioOut(<<"x">>), AudioOut(<<"y">>), CtlOut(<<"m">>), AtomIn(<<"a">>),
            Other(<<"e">>, TRUE)>>

Widener == <<AudioIn(<<"l">>), AudioOut(<<"x">>), AudioOut(<<"y">>)>>

Unsupported == <<AudioIn(<<"l">>), AudioOut(<<"o">>), Other(<<"e">>, FALSE)>>

\* the port symbols a routing entry may name; z is no port of any plugin
RoutingSymbols == {<<"l">>, <<"r">>, <<"z">>}

\* the entries for the channels of a file of MaxChannels channels, one entry
\* for a channel no file has, and one written without its colon
RoutingEntries ==
  {[ch |-> c, inst |-> k, sym |-> y, colon |-> TRUE] :
     c \in 1..MaxChannels, k \in 0..MaxInst, y \in RoutingSymbols}
  \cup {[ch |-> MaxChannels + 1, inst |-> 0, sym |-> <<"l">>, colon |-> TRUE]}
  \cup {[ch |-> 1, inst |-> 0, sym |-> <<>>, colon |-> FALSE]}

\* every list of at most MaxEntries routing entries, with its text
RoutingText == [es \in ListsUpTo(RoutingEntries, MaxEntries) |-> RenderList(es)]

RoutingLists == {RoutingText[es] : es \in DOMAIN RoutingText}

\* the symbol of the port with index i in the plugins built by Shaped
SymbolAt(i) == <<"p", Digits[i + 1]>>

PortKinds == {"ain", "aout", "ctl", "fw"}

\* the plugin with the given kinds of ports, its control inputs having the
\* metadata m = <<default, min, max>>
Shaped(shape, m) ==
  [i \in 1..Len(shape) |->
     CASE shape[i] = "ain" -> AudioIn(SymbolAt(i - 1))
       [] shape[i] = "aout" -> AudioOut(SymbolAt(i - 1))
       [] shape[i] = "ctl" -> CtlIn(SymbolAt(i - 1), m[1], m[2], m[3])
       [] shape[i] = "fw" -> Freewheel(SymbolAt(i - 1), m[1], m[2], m[3])]

Shapes ==
  {sh \in ListsUpTo(PortKinds, MaxPorts) :
     /\ \E i \in 1..Len(sh) : sh[i] = "aout"
     /\ Cardinality({i \in 1..Len(sh) : sh[i] = "fw"}) <= 1
     /\ Cardinality({i \in 1..Len(sh) : sh[i] = "ain"}) <= 1}

Metadata == {<<NaN, NaN, NaN>>, <<Num(3), NaN, NaN>>, <<NaN, Num(0 - 2), Num(4)>>}

ShapedPlugins == {Shaped(sh, m) : sh \in Shapes, m \in Metadata}

\* the floats of a port's metadata: undefined, or an even number up to
\* 2 * MaxValue in size
MetadataFloats == {NaN} \cup {Num(v + v) : v \in (0 - MaxValue)..MaxValue}

\* the plugins with one control input port, over its default, minimum and
\* maximum, and one audio output port
OneControlPlugins ==
  {Shaped(<<"ctl", "aout">>, <<d, mn, mx>>) :
     d \in MetadataFloats, mn \in MetadataFloats, mx \in MetadataFloats}

\* the plugin with n audio input ports and one audio output port
Inputs(n) == [i \in 1..(n + 1) |-> IF i <= n THEN AudioIn(SymbolAt(i - 1))
                                             ELSE AudioOut(SymbolAt(i - 1))]

Presets ==
  {NoState} \cup
  {<<[sym |-> SymbolAt(i), value |-> 5, isfloat |-> b]>> : i \in 0..(MaxPorts - 1), b \in BOOLEAN}

ParameterEntries ==
  {[sym |-> SymbolAt(i), value |-> v, colon |-> TRUE] : i \in 0..(MaxPorts - 1), v \in {0, 7}}
  \cup {[sym |-> SymbolAt(0), value |-> 7, colon |-> FALSE]}

\* every list of at most MaxEntries -p entries, with its text
ParameterText == [es \in ListsUpTo(ParameterEntries, MaxEntries) |-> RenderParameters(es)]

ParameterLists == {ParameterText[es] : es \in DOMAIN ParameterText}

\* the routing entries <channel>:<symbol> for the channels of a file of
\* MaxChannels channels and the audio input ports of Stereo
MixEntries ==
  {[ch |-> c, inst |-> 0, sym |-> y, colon |-> TRUE] :
     c \in 1..MaxChannels, y \in {<<"l">>, <<"r">>}}

MixLists == {RenderList(es) : es \in ListsUpTo(MixEntries, MaxEntries)}

\* ------------------------------------------------------------------- Init
\* what main() has not set yet
InitProgram ==
  /\ pc = "getplugin"
  /\ insndfile = "unopened"
  /\ outsndfile = "unopened"
  /\ outfile = [created |-> FALSE, channels |-> 0, frames |-> <<>>]
  /\ numplugins = 0
  /\ connections = <<>>
  /\ instances = <<>>
  /\ defaultvalues = <<>>
  /\ controlports = <<>>
  /\ buffer = <<>>
  /\ numread = 0
  /\ inpos = 0
  /\ pluginbuffers = <<>>
  /\ outputbuffers = <<>>
  /\ sndfilebuffer = <<>>
  /\ runframes = <<>>
  /\ clipped = FALSE
  /\ warned = 0
  /\ stderr = {}
  /\ exitstatus = "running"
  /\ ub = FALSE

\* Runs through the block loop: default routing or a routing list of one
\* entry, no preset, at most one -p entry.
Init ==
  /\ InitProgram
  /\ plugin \in {NoPlugin, Mono, Stereo, Unsupported}
  /\ connectargs \in {<<>>,
                       <<RenderList(<<[ch |-> 1, inst |-> 0, sym |-> <<"l">>, colon |-> TRUE]>>)>>,
                       <<RenderList(<<[ch |-> MaxChannels + 1, inst |-> 0, sym |-> <<"l">>,
                                       colon |-> TRUE]>>)>>,
                       <<RenderList(<<[ch |-> 1, inst |-> 0, sym |-> <<>>, colon |-> FALSE]>>)>>}
  /\ controls \in {<<>>, <<RenderParameters(<<[sym |-> <<"g">>, value |-> 2, colon |-> TRUE]>>)>>,
                    <<RenderParameters(<<[sym |-> <<"g">>, value |-> 2, colon |-> FALSE]>>)>>}
  /\ mixdown \in BOOLEAN
  /\ ignore_clipping \in BOOLEAN
  /\ blocksize \in 1..MaxBlock
  /\ state = NoState
  /\ infile \in [channels : 1..MaxChannels, frames : 0..MaxFrames]
  \* runs with -c or -p arguments read a file of at most one block
  /\ (connectargs # <<>> \/ controls # <<>>) => infile.frames <= 1

\* Runs up to the connection matrix, over the routing lists
InitRouting ==
  /\ InitProgram
  /\ plugin \in {Mono, Stereo}
  /\ connectargs \in {<<>>} \cup {<<l>> : l \in RoutingLists}
  /\ controls = <<>>
  /\ mixdown \in BOOLEAN
  /\ connectargs # <<>> => ~mixdown
  /\ ignore_clipping = FALSE
  /\ blocksize = 1
  /\ state = NoState
  /\ infile \in [channels : 1..(MaxChannels + 1), frames : {1}]
  \* the files with most channels are read with default routing, and the -c
  \* lists are given to the plugin that has both of the ports they name
  /\ connectargs # <<>> => infile.channels <= MaxChannels /\ plugin = Stereo

\* Runs up to the connection matrix with default routing, over the number
\* of audio input ports and of file channels
InitDefault ==
  /\ InitProgram
  /\ plugin \in {Inputs(n) : n \in 0..MaxPorts}
  /\ connectargs = <<>>
  /\ controls = <<>>
  /\ mixdown \in BOOLEAN
  /\ ignore_clipping = FALSE
  /\ blocksize = 1
  /\ state = NoState
  /\ infile \in [channels : 1..(MaxChannels + 1), frames : {1}]

\* Runs of two blocks of one frame without clip checking, over the matrices
\* of the default routing and of the -c lists that name ports of Stereo
InitMix ==
  /\ InitProgram
  /\ plugin \in {Mono, Stereo}
  /\ connectargs \in {<<>>} \cup {<<l>> : l \in MixLists}
  /\ controls = <<>>
  /\ mixdown \in BOOLEAN
  /\ ignore_clipping = TRUE
  /\ blocksize = 1
  /\ state = NoState
  /\ infile \in [channels : 1..MaxChannels, frames : {2}]
  /\ connectargs # <<>> => infile.channels = MaxChannels /\ plugin = Stereo /\ ~mixdown

\* Runs up to the block loop without preset or -p, over the metadata of the
\* plugin's control port
InitStarting ==
  /\ InitProgram
  /\ plugin \in OneControlPlugins
  /\ connectargs = <<>>
  /\ controls = <<>>
  /\ mixdown = FALSE
  /\ ignore_clipping = FALSE
  /\ blocksize = 1
  /\ state = NoState
  /\ infile \in [channels : {1}, frames : {1}]

\* Runs through the block loop with default routing and one instance, over
\* the length of the file and the block size
InitDrain ==
  /\ InitProgram
  /\ plugin \in {Mono, Widener}
  /\ connectargs = <<>>
  /\ controls = <<>>
  /\ mixdown = FALSE
  /\ ignore_clipping \in BOOLEAN
  /\ blocksize \in 1..MaxBlock
  /\ state = NoState
  /\ infile \in [channels : {numin(plugin)}, frames : 0..MaxFrames]

\* Runs up to the block loop, over the plugin's control ports, the preset
\* and the -p lists
InitControl ==
  /\ InitProgram
  /\ plugin \in ShapedPlugins
  /\ connectargs = <<>>
  /\ controls \in {<<>>} \cup {<<l>> : l \in ParameterLists}
  /\ mixdown = FALSE
  /\ ignore_clipping = FALSE
  /\ blocksize = 1
  /\ state \in Presets
  /\ infile \in [channels : {1}, frames : {1}]

\* ------------------------------------------------------------------- Next
Cleanup == CloseOutput \/ CloseInput \/ Exit

NextSetup ==
  \/ GetPlugin \/ OpenInput \/ ClassifyPorts \/ OpenOutput
  \/ CountInstances \/ BuildMatrix
  \/ Cleanup

NextControl ==
  \/ NextSetup
  \/ Instantiate \/ InitControls \/ ApplyParameters

Next ==
  \/ NextControl
  \/ ConnectPorts
  \/ ReadBlock \/ Mix \/ RunInstances \/ Interleave \/ CheckClipped \/ WriteBlock
  \/ DestroyInstances

\* main() with process_no_check_clipping as its block loop
NextNoCheck ==
  \/ NextControl
  \/ ConnectPorts
  \/ ReadBlock \/ Mix \/ RunInstances \/ Interleave \/ WriteBlock
  \/ DestroyInstances

\* main(), from the plugin lookup to the exit
Spec == Init /\ [][Next]_vars

\* main() up to the connection matrix
SpecRouting == InitRouting /\ [][NextSetup]_vars

\* main() up to the connection matrix, default routing only
SpecDefault == InitDefault /\ [][NextSetup]_vars

\* main() without clip checking, over the connection matrices
SpecMix == InitMix /\ [][NextNoCheck]_vars

\* main() up to the block loop, over the metadata of one control port
SpecStarting == InitStarting /\ [][NextControl]_vars

\* main() over the length of the file, every step of the program being taken
\* in the end: the program is sequential and none of its steps blocks
SpecDrain == InitDrain /\ [][Next]_vars /\ WF_vars(Next)

\* main() up to the block loop
SpecControl == InitControl /\ [][NextControl]_vars

\* ----------------------------------------------------------------- claims
\* a block has just been written
BlockWritten == pc = "read" /\ numread > 0

\* the frame of the output file that frame i of the block just written became
FileFrame(i) == outfile.frames[Len(outfile.frames) - numread + i + 1]

InRange(v) == 0 - Unit <= v /\ v <= Unit

\* C1: in each block of n frames, the sample instance p produced on output
\* port o at frame i < n is in the output file as frame i, channel
\* p * numOut + o, and the file has numInstances * numOut channels.  (Stated
\* for the samples clip checking leaves alone.)
C1_EveryInstanceReachesFile ==
  BlockWritten =>
    /\ outfile.channels = numplugins * numout(plugin)
    /\ \A p \in 0..(numplugins - 1) : \A o \in 0..(numout(plugin) - 1) :
         \A i \in 0..(numread - 1) :
           (ignore_clipping \/ InRange(outputbuffers[p][o][i])) =>
             /\ Len(outfile.frames) >= numread
             /\ p * numout(plugin) + o + 1 \in DOMAIN FileFrame(i)
             /\ FileFrame(i)[p * numout(plugin) + o + 1] = outputbuffers[p][o][i]

\* the routing entries es are what the single -c argument holds
RoutingWritten(es) == connectargs = <<RoutingText[es]>>

\* the audio input ports (0-based) with the symbol sym
PortsNamed(sym) == {j \in 0..(numin(plugin) - 1) : insymbol(plugin, j) = sym}

\* C2: once the matrix is built from the -c list, every entry c:k.sym or
\* c:sym (k = 1) with 1 <= c <= numchannels and sym the symbol of audio input
\* port j has connections[k - 1][j][c - 1] set.
C2_ExplicitEntrySetsCell ==
  pc = "instantiate" =>
    \A es \in DOMAIN RoutingText :
      RoutingWritten(es) =>
        \A n \in 1..Len(es) :
          LET e == es[n]
              k == IF e.inst = 0 THEN 1 ELSE e.inst
          IN (e.colon /\ e.ch <= numchannels) =>
               \A j \in PortsNamed(e.sym) :
                 /\ k - 1 \in DOMAIN connections
                 /\ connections[k - 1][j][e.ch - 1]

\* default routing, one audio input port, -m, more than one file channel
MixdownCase ==
  /\ connectargs = <<>>
  /\ plugin # NoPlugin
  /\ numin(plugin) = 1
  /\ mixdown
  /\ numchannels > 1

\* C3: in the mixdown case there is one instance, every file channel is
\* connected to its input port, and the mixed sample of each frame is the
\* mean of the frame's samples over all the channels.
C3_MixdownAveragesAllChannels ==
  MixdownCase =>
    /\ pc = "instantiate" =>
         /\ numplugins = 1
         /\ \A ch \in 0..(numchannels - 1) : connections[0][0][ch]
    /\ pc = "run" =>
         \A i \in 0..(numread - 1) :
           pluginbuffers[0][0][i] * numchannels =
             SumOver([ch \in 0..(numchannels - 1) |-> buffer[i * numchannels + ch]],
                     0..(numchannels - 1))

\* C4: with clip checking, every sample in the output file lies in [-1, 1],
\* in the blocks after the first clipped one too.
C4_WrittenSamplesClamped ==
  ~ignore_clipping =>
    \A f \in 1..Len(outfile.frames) : \A c \in DOMAIN outfile.frames[f] :
      InRange(outfile.frames[f][c])

\* C5: in every block, a final partial one included, each instance is run
\* over exactly the n frames read.
C5_RunOverFramesRead ==
  pc = "interleave" => \A p \in 0..(numplugins - 1) : runframes[p] = numread

\* the place in controlports of the plugin port with index idx
ControlPos(p, idx) == CHOOSE k \in 0..(numcontrol(p) - 1) : controlindices(p)[k + 1] = idx

\* the control values resolved without the freewheel forcing
UnforcedControls ==
  ApplyControls(plugin, controls, 1,
                [err |-> "none", cp |-> StartingValues(plugin, defaultvalues),
                 warnings |-> 0]).cp

\* C6: when the block loop starts, a freewheel-flagged control input is
\* bound to 1 whatever its position, the metadata, the preset and the -p
\* overrides, and every other control port has the value it resolves to
\* without the forcing.  (Stated for the runs in which every write stayed
\* inside its array.)
C6_FreewheelForcedOn ==
  (pc = "connect" /\ fwheelportidx(plugin) >= 0 /\ ~ub) =>
    LET fw == ControlPos(plugin, fwheelportidx(plugin))
    IN /\ controlports[fw] = 1
       /\ \A k \in 0..(numcontrol(plugin) - 1) :
            k # fw => controlports[k] = UnforcedControls[k]

\* the instance count a routing list asks for
RECURSIVE MaxInstance(_)
MaxInstance(es) ==
  IF Len(es) = 0 THEN 1 ELSE Max2(es[1].inst, MaxInstance(Tail(es)))

\* C7: for a well-formed routing list, entries with and without an instance
\* index in any order, the counting pass ends without a fatal error and
\* numplugins is the largest instance index named, 1 if none is.
C7_CountIsMaxInstance ==
  (pc = "matrix" \/ stderr \cap {"nocolon", "badinstance"} # {}) =>
    \A es \in DOMAIN RoutingText :
      (RoutingWritten(es) /\ \A n \in 1..Len(es) : es[n].colon) =>
        /\ stderr \cap {"nocolon", "badinstance"} = {}
        /\ pc = "matrix" => numplugins = MaxInstance(es)

\* C8: on every exit path every instance that was created has been
\* deactivated and freed when the process exits.
C8_InstancesFreedAtExit ==
  pc = "exit" => \A i \in 1..Len(instances) : instances[i] = "freed"

\* C9: a run that aborted on a fatal error exits with a non-zero status:
\* status zero is returned only by a run that met no fatal error.
C9_FatalExitsNonZero ==
  (pc = "exit" /\ Aborted) => exitstatus # "0"

\* C10: when the routing is rejected (an entry with no colon, a file channel
\* out of range, default routing with too few file channels), the output
\* file has not been created or truncated.
C10_RejectedRoutingLeavesNoFile ==
  stderr \cap {"nocolon", "channel", "routing"} # {} => ~outfile.created

\* default routing of a plugin with one audio input port, without -m
PerChannelCase ==
  /\ connectargs = <<>>
  /\ plugin # NoPlugin
  /\ numin(plugin) = 1
  /\ ~mixdown

\* C11: with default routing, one audio input port and no -m, a file of C
\* channels is not rejected, gets C instances, and connections[i][0][ch] is
\* set exactly when ch = i; no write falls outside the matrix.
C11_OneInstancePerChannel ==
  PerChannelCase =>
    /\ "routing" \notin stderr
    /\ ~ub
    /\ pc = "instantiate" =>
         /\ numplugins = numchannels
         /\ DOMAIN connections = 0..(numchannels - 1)
         /\ \A i \in 0..(numchannels - 1) : \A ch \in 0..(numchannels - 1) :
              connections[i][0][ch] = (ch = i)

\* C11, its case: the matrix is built for a file of several channels
C11_Witness ==
  PerChannelCase /\ pc = "instantiate" /\ numchannels > 1 /\ connections[1][0][1]

\* default routing with as many file channels as audio input ports, or with
\* more file channels than audio input ports when these are not one
DiagonalCase ==
  /\ connectargs = <<>>
  /\ plugin # NoPlugin
  /\ \/ numin(plugin) = numchannels
     \/ numchannels > numin(plugin) /\ numin(plugin) # 1

\* C12: in the diagonal case, with or without -m, the file is not rejected,
\* there is one instance, and connections[0][port][ch] is set exactly when
\* port = ch; the channels from numin on are connected to no port.
C12_DiagonalMapping ==
  DiagonalCase =>
    /\ "routing" \notin stderr
    /\ ~ub
    /\ pc = "instantiate" =>
         /\ numplugins = 1
         /\ DOMAIN connections = {0}
         /\ \A port \in 0..(numin(plugin) - 1) : \A ch \in 0..(numchannels - 1) :
              connections[0][port][ch] = (port = ch)

\* C12, its case: more file channels than the several audio input ports, -m
\* given
C12_Witness ==
  /\ DiagonalCase
  /\ pc = "instantiate"
  /\ mixdown
  /\ numin(plugin) > 1
  /\ numchannels > numin(plugin)
  /\ connections[0][1][1]

\* C14: no write of the matrix construction, from -c lists or from the
\* default heuristics, falls outside connections[numplugins][numin][numchannels],
\* and once the matrix is built every set cell has its instance below
\* numplugins, its port below numin and its channel below numchannels.
C14_MatrixWritesInBounds ==
  /\ ~ub
  /\ pc = "instantiate" =>
       \A p \in DOMAIN connections : \A port \in DOMAIN connections[p] :
         \A ch \in DOMAIN connections[p][port] :
           connections[p][port][ch] =>
             /\ p \in 0..(numplugins - 1)
             /\ port \in 0..(numin(plugin) - 1)
             /\ ch \in 0..(numchannels - 1)

\* C14, its case: a -c list with an entry that carries an instance index has
\* been turned into a matrix of two instances
C14_Witness ==
  /\ pc = "instantiate"
  /\ connectargs # <<>>
  /\ numplugins = 2
  /\ \E port \in 0..(numin(plugin) - 1) : \E ch \in 0..(numchannels - 1) :
       connections[0][port][ch]

\* the file channels flagged for input port port of instance p
Flagged(p, port) == {ch \in 0..(numchannels - 1) : connections[p][port][ch]}

\* C13: after mix(), for every instance p, input port and frame i < n, the
\* planar sample times the number of flagged channels is the sum of the
\* frame's samples over the flagged channels, and the sample is 0 when no
\* channel is flagged, in the first block and in the later ones, whose
\* buffers hold the samples of the block before.
C13_MixIsMeanOfFlagged ==
  pc = "run" =>
    \A p \in 0..(numplugins - 1) : \A port \in 0..(numin(plugin) - 1) :
      \A i \in 0..(numread - 1) :
        IF Flagged(p, port) = {}
        THEN pluginbuffers[p][port][i] = 0
        ELSE pluginbuffers[p][port][i] * Cardinality(Flagged(p, port)) =
               SumOver([ch \in Flagged(p, port) |-> buffer[i * numchannels + ch]],
                       Flagged(p, port))

\* C13, its case: the second block has been mixed, one port has several
\* channels flagged and another none, and the mixed sample differs from the
\* one the buffer held, which the plugin copied into the first frame of the
\* output file
C13_Witness ==
  /\ pc = "run"
  /\ inpos = 2
  /\ Cardinality(Flagged(0, 0)) > 1
  /\ Flagged(0, 1) = {}
  /\ Len(outfile.frames) = 1
  /\ outfile.frames[1][1] # pluginbuffers[0][0][0]

\* the -p entries es are what the single -p argument holds
ParametersWritten(es) == controls = <<ParameterText[es]>>

\* the -p entries in force: those of the -p argument, none without one
OverridesGiven ==
  IF controls = <<>> THEN <<>>
  ELSE CHOOSE es \in DOMAIN ParameterText : ParametersWritten(es)

\* the places in es of the overrides for the symbol sym
Overriding(es, sym) == {n \in 1..Len(es) : es[n].sym = sym}

\* the value of the last override in es for the symbol sym
LastOverride(es, sym) ==
  es[CHOOSE n \in Overriding(es, sym) : \A m \in Overriding(es, sym) : m <= n].value

\* C15: when the block loop starts, every control input port named by a -p
\* override is bound to the value of the last override for its symbol,
\* whatever the metadata and the preset, and every control input port that
\* no override names is bound to its preset-or-metadata starting value.
\* (Stated for the runs in which every write stayed inside its array, and,
\* in its second part, for the ports other than the freewheel port.)
C15_OverridesWinOthersKeep ==
  (pc = "connect" /\ ~ub) =>
    \A k \in 0..(numcontrol(plugin) - 1) :
      LET sym == controlsymbol(plugin, k)
      IN IF Overriding(OverridesGiven, sym) # {}
         THEN controlports[k] = LastOverride(OverridesGiven, sym)
         ELSE controlindices(plugin)[k + 1] # fwheelportidx(plugin) =>
                controlports[k] = StartingValues(plugin, defaultvalues)[k]

\* C16: the starting value line 768 computes for a control port from its
\* default, minimum and maximum is the default when it is defined; else 0
\* when neither bound is defined, min(max, 0) with the maximum alone,
\* max(min, 0) with the minimum alone, and the midpoint with both; so that,
\* without a default and with min <= max, it lies within each defined bound.
C16_StartingValue ==
  pc = "parameters" =>
    LET q == PortAt(plugin, controlindices(plugin)[1])
        v == controlports[0]
    IN /\ ~isnan(q.dflt) => v = Val(q.dflt)
       /\ isnan(q.dflt) =>
            /\ (isnan(q.min) /\ isnan(q.max)) => v = 0
            /\ (isnan(q.min) /\ ~isnan(q.max)) =>
                 v = (IF Val(q.max) < 0 THEN Val(q.max) ELSE 0)
            /\ (~isnan(q.min) /\ isnan(q.max)) =>
                 v = (IF Val(q.min) > 0 THEN Val(q.min) ELSE 0)
            /\ (~isnan(q.min) /\ ~isnan(q.max)) => v + v = Val(q.min) + Val(q.max)
            /\ (isnan(q.min) \/ isnan(q.max) \/ Val(q.min) <= Val(q.max)) =>
                 /\ ~isnan(q.min) => Val(q.min) <= v
                 /\ ~isnan(q.max) => v <= Val(q.max)

\* C16, its case: a port without default whose maximum alone is defined and
\* negative has got its starting value
C16_Witness ==
  /\ pc = "parameters"
  /\ isnan(PortAt(plugin, 0).dflt)
  /\ isnan(PortAt(plugin, 0).min)
  /\ ~isnan(PortAt(plugin, 0).max)
  /\ controlports[0] < 0

\* the output of the block in hand, over all the instances and their output
\* ports, holds a sample outside [-1, 1]
BlockOutOfRange ==
  \E p \in 0..(numplugins - 1) : \E o \in 0..(numout(plugin) - 1) :
    \E i \in 0..(numread - 1) : ~InRange(outputbuffers[p][o][i])

\* C17: the clipping warning is printed at most once in a run and never
\* without clip checking; with clip checking, once a block whose output
\* holds a sample outside [-1, 1] has gone through the check, the warning
\* has been printed.
C17_WarnedOnceAtFirstClip ==
  /\ warned <= 1
  /\ ignore_clipping => warned = 0
  /\ (~ignore_clipping /\ pc = "write" /\ BlockOutOfRange) => warned = 1

\* the places of main() inside the block loop, after the read
InBlock == pc \in {"mix", "run", "interleave", "clip", "write"}

\* C18: the block loop, once entered, reaches the end of input; the read
\* that returns zero frames leaves the loop, and no read, mix, run or write
\* follows it; each write appends as many frames as the block's read gave;
\* and when the loop is left the output file holds as many frames as the
\* input file.
C18_LoopDrains ==
  /\ (pc = "read") ~> (pc = "cleanup_lv2")
  /\ [][(pc = "read" /\ numread' = 0) => pc' = "cleanup_lv2"]_vars
  /\ [](pc = "cleanup_lv2" => [](pc # "read" /\ ~InBlock))
  /\ [][pc = "write" => Len(outfile'.frames) = Len(outfile.frames) + numread]_vars
  /\ [](pc = "cleanup_lv2" => Len(outfile.frames) = infile.frames)

\* C18, its case: the loop is left after a file of MaxFrames frames was read
\* in blocks of MaxBlock frames and written
C18_Witness ==
  /\ pc = "cleanup_lv2"
  /\ infile.frames = MaxFrames
  /\ blocksize = MaxBlock
  /\ numread = 0
  /\ Len(outfile.frames) = MaxFrames

=============================================================================
